---- MODULE Spec2Model ----
(* Model of ATMServerUpdater.py: one run of the updater (construction,   *)
(* update(), save_config) and the download progress hook.                *)
(* Python strings are sequences of one-character strings; None is the    *)
(* one-element sequence <<"None">>, which no Python string equals.       *)
EXTENDS Integers, Sequences, FiniteSets, TLC

\* ---------------------------------------------------------------- bounds
MaxNameLen == 2        \* longest release display name
MaxVerLen == 1         \* longest stored / entered version string
MaxFiles == 1          \* largest additionalFilesCount
MaxPrompts == 2        \* yes_no questions asked before the user must answer validly
MaxBlockCount == 6     \* largest block_count passed to the progress hook
MaxBlockKB == 3        \* largest block_size, in KB
MaxTotalKB == 8        \* largest total_size, in KB
MaxParseLen == 5       \* longest display name given to parse_version on its own
MaxEntries == 2        \* most entries in the directory find_modpack_directories lists
MaxJsonLen == 2        \* longest string value in the configuration round trip
MaxRuns == 2           \* runs made one after the other on the same config.json

\* ---------------------------------------------------------------- values
None == <<"None">>
Chars == {"-", " ", "1"}

RECURSIVE StrUpTo(_)
StrUpTo(n) == IF n = 0 THEN {<<>>}
              ELSE StrUpTo(n - 1) \cup
                   {Append(s, c) : s \in {t \in StrUpTo(n - 1) : Len(t) = n - 1}, c \in Chars}

DisplayNames == StrUpTo(MaxNameLen)
Versions == StrUpTo(MaxVerLen)

Release == [display_name : DisplayNames,
            additional_files_count : 0..MaxFiles,
            has_server_pack : BOOLEAN]

NoRelease == [display_name |-> None, additional_files_count |-> 0, has_server_pack |-> FALSE]

NoFile == [all_the_mods_9 |-> None]

DefaultConfig == [all_the_mods_9 |-> "715572", page_index |-> 0, page_size |-> 1,
                  sort |-> "dateCreated", sort_desc |-> "true", remove_alphas |-> "true",
                  current_version |-> None, data |-> None]

\* a configuration edited by the user: every field differs from the default
OtherConfig == [all_the_mods_9 |-> "520914", page_index |-> 1, page_size |-> 2,
                sort |-> "dateModified", sort_desc |-> "false", remove_alphas |-> "false",
                current_version |-> None, data |-> <<"d">>]

ConfigDocs == {[d EXCEPT !.current_version = v] :
                 d \in {DefaultConfig, OtherConfig}, v \in Versions \cup {None}}

Unset == [all_the_mods_9 |-> None, page_index |-> 0, page_size |-> 0,
          sort |-> None, sort_desc |-> None, remove_alphas |-> None,
          current_version |-> None, data |-> None]

Tokens == {<<"Y">>, <<"y", "e", "s">>, <<"Y", "E", "S">>, <<"n">>, <<"N", "o">>,
           <<>>, <<"y", "e">>}

SERVER_FILES_ZIP == <<"Server-Files-0.1.12.zip">>

VARIABLES
  file,            \* config.json on disk: a document, or NoFile
  file0,           \* config.json as loaded at start (unchanged until update() starts)
  mem,             \* the instance fields set by read_config
  pc,              \* position of the run
  latest_release,  \* local latest_release of update()
  latest_version,  \* local latest_version of update()
  branch,          \* which branch of the if/elif chain of update() was taken
  answer,          \* what yes_no returned: "none", "yes", "no"
  entered,         \* what the version prompt returned, or None
  dph_filename,    \* self.dph_filename
  downloaded,      \* files fetched by urlretrieve in this run
  extracted,       \* archive extracted by install_update, or None
  error,           \* exception that ended the run, or "none"
  log,             \* calls made so far, in order
  last_yn,         \* local yn of yes_no: the last input, None outside yes_no and its return
  run,             \* number of the run on this configuration file
  prev_release,    \* release installed by the previous run, or NoRelease
  fn, arg, res,    \* a function applied on its own: its name, argument and result
  text,            \* the text save_config wrote in the round trip
  total_size, block_size, block_count,   \* arguments of the progress hook
  display,         \* last progress line printed, or NoDisplay
  hook_error       \* exception raised by the progress hook, or "none"

upd_vars == <<file, file0, mem, pc, latest_release, latest_version, branch, answer, entered,
              dph_filename, downloaded, extracted, error, log, last_yn>>
run_vars == <<run, prev_release>>
fn_vars == <<fn, arg, res, text>>
hook_vars == <<total_size, block_size, block_count, display, hook_error>>
vars == <<file, file0, mem, pc, latest_release, latest_version, branch, answer, entered,
          dph_filename, downloaded, extracted, error, log, last_yn, run, prev_release,
          fn, arg, res, text,
          total_size, block_size, block_count, display, hook_error>>

NoDisplay == [percent |-> 0, status |-> -1, num_blocks |-> 0, curr |-> 0, total |-> 0, unit |-> 0]

\* ------------------------------------------------------- pure functions
\* variant: either condition is enough
has_server_files_or(release) ==
  release.additional_files_count > 0 \/ release.has_server_pack

\* has_server_files, lines 108-109
has_server_files(release) ==
  release.additional_files_count > 0 /\ release.has_server_pack

RECURSIVE LastDash(_, _)
LastDash(s, i) == IF i = 0 THEN 0
                  ELSE IF s[i] = "-" THEN i ELSE LastDash(s, i - 1)

parse_version(release) ==
  LET s == release.display_name
  IN  SubSeq(s, LastDash(s, Len(s)) + 1, Len(s))

LowerChar(c) == CASE c = "Y" -> "y" [] c = "E" -> "e" [] c = "S" -> "s"
                  [] c = "N" -> "n" [] c = "O" -> "o" [] OTHER -> c

\* variant: the input is compared as typed
lower_as_typed(s) == s

\* str.lower, line 173
lower(s) == [i \in DOMAIN s |-> LowerChar(s[i])]

YES == {<<"y">>, <<"y", "e", "s">>}
NO == {<<"n">>, <<"n", "o">>}

\* int(a / b) of Python for a >= 0 and b # 0: the quotient truncated toward zero
TruncDiv(a, b) == IF b > 0 THEN a \div b ELSE -(a \div (-b))

\* round() of Python on the quotient a / b, a >= 0, b > 0: ties go to the even integer
RoundHalfEven(a, b) ==
  LET q == a \div b
      r == a % b
  IN  IF 2 * r < b THEN q
      ELSE IF 2 * r > b THEN q + 1
      ELSE IF q % 2 = 0 THEN q ELSE q + 1

RECURSIVE FloorLog1024(_)
FloorLog1024(n) == IF n < 1024 THEN 0 ELSE 1 + FloorLog1024(n \div 1024)

RECURSIVE Pow1024(_)
Pow1024(i) == IF i = 0 THEN 1 ELSE 1024 * Pow1024(i - 1)

\* convert_size, lines 121-130.  s100 is the printed number times 100 (an
\* integer when rounded, two decimals otherwise); unit indexes size_name.
convert_size(size_bytes, rounded) ==
  IF size_bytes = 0 THEN [error |-> "none", s100 |-> 0, unit |-> 0]
  ELSE IF size_bytes < 0 THEN [error |-> "ValueError", s100 |-> 0, unit |-> 0]
  ELSE LET i == FloorLog1024(size_bytes)
           p == Pow1024(i)
       IN  [error |-> "none",
            s100 |-> IF rounded THEN 100 * RoundHalfEven(size_bytes, p)
                                ELSE RoundHalfEven(size_bytes * 100, p),
            unit |-> i]

bar_width == 40

\* the six ifs of lines 139-144, each overriding the one before; -1 is "not assigned"
StatusOf(percent) ==
  LET s0 == IF percent >= 0 THEN 0 ELSE -1
      s1 == IF percent >= 20 THEN 1 ELSE s0
      s2 == IF percent >= 50 THEN 2 ELSE s1
      s3 == IF percent >= 75 THEN 3 ELSE s2
      s4 == IF percent >= 90 THEN 4 ELSE s3
  IN  IF percent = 100 THEN 5 ELSE s4

HookFailed(e) == [error |-> e, printed |-> FALSE, line |-> NoDisplay]

\* download_progress_hook, lines 133-156: what one callback prints or raises
download_progress_hook(bc, bs, ts) ==
  IF ~(bc * bs > 1024) THEN [error |-> "none", printed |-> FALSE, line |-> NoDisplay]
  ELSE IF ts = 0 THEN HookFailed("ZeroDivisionError")
  ELSE LET percent == TruncDiv(bc * bs * 100, ts)
           status == StatusOf(percent)
           dl_total == convert_size(ts, TRUE)
           curr == convert_size(bc * bs, TRUE)
           min_pct == IF percent < 100 THEN percent ELSE 100
           num_blocks == TruncDiv(bar_width * min_pct, 100)
       IN  IF dl_total.error # "none" THEN HookFailed(dl_total.error)
           ELSE IF status = -1 THEN HookFailed("UnboundLocalError")
           ELSE [error |-> "none", printed |-> TRUE,
                 line |-> [percent |-> percent, status |-> status, num_blocks |-> num_blocks,
                           curr |-> curr.s100 \div 100, total |-> dl_total.s100 \div 100,
                           unit |-> dl_total.unit]]

\* variant: the third test lacks its negation
UpdateBranch_no_not(current_version, release) ==
  LET v == parse_version(release)
  IN  IF current_version # v /\ has_server_files(release) THEN "UpdateAvailable"
      ELSE IF current_version = v THEN "UpToDate"
      ELSE IF has_server_files(release) THEN "NoServerFiles"
      ELSE "NoNewVersion"

\* variant: the file-availability test is made before the equality test
UpdateBranch_files_first(current_version, release) ==
  LET v == parse_version(release)
  IN  IF ~has_server_files(release) THEN "NoServerFiles"
      ELSE IF current_version = v THEN "UpToDate"
      ELSE "UpdateAvailable"

\* the if/elif chain of update(), lines 255-283
UpdateBranch(current_version, release) ==
  LET v == parse_version(release)
  IN  IF current_version # v /\ has_server_files(release) THEN "UpdateAvailable"
      ELSE IF current_version = v THEN "UpToDate"
      ELSE IF ~has_server_files(release) THEN "NoServerFiles"
      ELSE "NoNewVersion"

\* ------------------------------------------------------- configuration
read_config(doc) == [k \in DOMAIN DefaultConfig |-> doc[k]]

\* variant: the defaults are written, with only the version taken from the instance
ConfigOf_defaults(m) == [DefaultConfig EXCEPT !.current_version = m.current_version]

\* the dict written by save_config, lines 198-207
ConfigOf(m) == [all_the_mods_9 |-> m.all_the_mods_9, page_index |-> m.page_index,
                page_size |-> m.page_size, sort |-> m.sort, sort_desc |-> m.sort_desc,
                remove_alphas |-> m.remove_alphas, current_version |-> m.current_version,
                data |-> m.data]

\* ------------------------------------------------------------ the run
UpdIdle ==
  /\ file0 = NoFile
  /\ mem = Unset
  /\ pc = "new"
  /\ latest_release = NoRelease
  /\ latest_version = None
  /\ branch = "none"
  /\ answer = "none"
  /\ entered = None
  /\ dph_filename = None
  /\ downloaded = {}
  /\ extracted = None
  /\ error = "none"
  /\ log = <<>>
  /\ last_yn = None

RunIdle ==
  /\ run = 1
  /\ prev_release = NoRelease

FnIdle ==
  /\ fn = "none" /\ arg = <<>> /\ res = <<>> /\ text = <<>>

HookIdle ==
  /\ total_size = 0 /\ block_size = 0 /\ block_count = 0
  /\ display = NoDisplay
  /\ hook_error = "none"

Init ==
  /\ file \in ConfigDocs \cup {NoFile}
  /\ UpdIdle
  /\ RunIdle
  /\ FnIdle
  /\ HookIdle

\* variant: the configuration is read again after the branch
Construct_read_twice ==
  /\ pc = "new"
  /\ IF file # NoFile
       THEN /\ mem' = read_config(file)
            /\ file' = file
            /\ log' = log \o <<"read_config", "read_config">>
       ELSE /\ file' = DefaultConfig
            /\ mem' = read_config(DefaultConfig)
            /\ log' = log \o <<"create_config", "read_config", "read_config">>
  /\ file0' = file'
  /\ pc' = "ready"
  /\ UNCHANGED <<latest_release, latest_version, branch, answer, entered, dph_filename,
                 downloaded, extracted, error>>
  /\ UNCHANGED <<hook_vars, fn_vars, run_vars, last_yn>>

\* __init__: load config.json, creating it with defaults when absent
Construct ==
  /\ pc = "new"
  /\ IF file # NoFile
       THEN /\ mem' = read_config(file)
            /\ file' = file
            /\ log' = log \o <<"read_config">>
       ELSE /\ file' = DefaultConfig
            /\ mem' = read_config(DefaultConfig)
            /\ log' = log \o <<"create_config", "read_config">>
  /\ file0' = file'
  /\ pc' = "ready"
  /\ UNCHANGED <<latest_release, latest_version, branch, answer, entered, dph_filename,
                 downloaded, extracted, error>>
  /\ UNCHANGED <<hook_vars, fn_vars, run_vars, last_yn>>

\* variant: the version prompt is skipped
AfterFetch_no_prompt(current_version) == "decide"

\* update(), line 251: the version prompt is entered only when no version is recorded
AfterFetch(current_version) == IF current_version = None THEN "input_version" ELSE "decide"

\* update(), lines 246-253 up to the version prompt: get_latest_version, parse_version
update_get_latest ==
  /\ pc = "ready"
  /\ log' = log \o <<"get_latest_version">>
  /\ \E outcome \in {"ok", "URLError", "KeyError"} :
       IF outcome = "ok"
         THEN \E r \in Release :
                /\ latest_release' = r
                /\ latest_version' = parse_version(r)
                /\ pc' = AfterFetch(mem.current_version)
                /\ error' = error
         ELSE /\ pc' = "aborted"
              /\ error' = outcome
              /\ UNCHANGED <<latest_release, latest_version>>
  /\ UNCHANGED <<file, file0, mem, branch, answer, entered, dph_filename, downloaded, extracted>>
  /\ UNCHANGED <<hook_vars, fn_vars, run_vars, last_yn>>

\* update(), lines 251-253: the version prompt
update_input_version ==
  /\ pc = "input_version"
  /\ \E v \in Versions :
       /\ entered' = v
       /\ mem' = [mem EXCEPT !.current_version = v]
  /\ log' = log \o <<"input_version">>
  /\ pc' = "decide"
  /\ UNCHANGED <<file, file0, latest_release, latest_version, branch, answer, dph_filename,
                 downloaded, extracted, error>>
  /\ UNCHANGED <<hook_vars, fn_vars, run_vars, last_yn>>

\* variant: the branch without server files leaves update() at once
AfterDecision_early_return(b) ==
  IF b = "UpdateAvailable" THEN "yes_no" ELSE IF b = "NoServerFiles" THEN "done" ELSE "save"

\* variant: the confirmation is asked whatever the decision
AfterDecision_always_ask(b) == "yes_no"

\* update(), lines 255-258 and 276-283: only the first branch asks for confirmation
AfterDecision(b) == IF b = "UpdateAvailable" THEN "yes_no" ELSE "save"

\* update(), lines 255-283: the decision
update_decide ==
  /\ pc = "decide"
  /\ branch' = UpdateBranch(mem.current_version, latest_release)
  /\ pc' = AfterDecision(branch')
  /\ log' = log \o <<"decide">>
  /\ UNCHANGED <<file, file0, mem, latest_release, latest_version, answer, entered, dph_filename,
                 downloaded, extracted, error>>
  /\ UNCHANGED <<hook_vars, fn_vars, run_vars, last_yn>>

\* variant: the answer is ignored
AfterYesNo_ignored(yes) == "install"

\* update(), lines 258-274: install on yes, straight to save_config on no
AfterYesNo(yes) == IF yes THEN "install" ELSE "save"

\* yes_no, lines 170-176: one pass of the loop
update_yes_no ==
  /\ pc = "yes_no"
  /\ \E yn \in Tokens :
       /\ Len(SelectSeq(log, LAMBDA e : e = "yes_no")) < MaxPrompts
            \/ lower(yn) \in YES \cup NO
       /\ IF lower(yn) \in YES \cup NO
            THEN /\ answer' = IF lower(yn) \in YES THEN "yes" ELSE "no"
                 /\ pc' = AfterYesNo(lower(yn) \in YES)
            ELSE /\ answer' = answer
                 /\ pc' = pc
       /\ last_yn' = yn
  /\ log' = log \o <<"yes_no">>
  /\ UNCHANGED <<file, file0, mem, latest_release, latest_version, branch, entered, dph_filename,
                 downloaded, extracted, error>>
  /\ UNCHANGED <<hook_vars, fn_vars, run_vars>>

\* variant: save_config is reached also when the extraction raised
update_install_then_save ==
  /\ pc = "install"
  /\ dph_filename' = SERVER_FILES_ZIP
  /\ log' = log \o <<"install_update">>
  /\ \E outcome \in {"ok", "FileNotFoundError", "BadZipFile"} :
       /\ extracted' = IF outcome = "ok" THEN dph_filename' ELSE extracted
       /\ pc' = "save"
       /\ error' = IF outcome = "ok" THEN error ELSE outcome
  /\ UNCHANGED <<file, file0, mem, latest_release, latest_version, branch, answer, entered, downloaded>>
  /\ last_yn' = None
  /\ UNCHANGED <<hook_vars, fn_vars, run_vars>>

\* update() lines 262-264 and install_update, lines 233-242
update_install ==
  /\ pc = "install"
  /\ dph_filename' = SERVER_FILES_ZIP
  /\ log' = log \o <<"install_update">>
  /\ \E outcome \in {"ok", "FileNotFoundError", "BadZipFile"} :
       IF outcome = "ok"
         THEN /\ extracted' = dph_filename'
              /\ pc' = "save"
              /\ error' = error
         ELSE /\ extracted' = extracted
              /\ pc' = "aborted"
              /\ error' = outcome
  /\ UNCHANGED <<file, file0, mem, latest_release, latest_version, branch, answer, entered, downloaded>>
  /\ last_yn' = None
  /\ UNCHANGED <<hook_vars, fn_vars, run_vars>>

\* variant: the latest version is recorded whatever the user answered
save_config_latest ==
  /\ pc = "save"
  /\ file' = [ConfigOf(mem) EXCEPT !.current_version = latest_version]
  /\ log' = log \o <<"save_config">>
  /\ pc' = "done"
  /\ UNCHANGED <<file0, mem, latest_release, latest_version, branch, answer, entered, dph_filename,
                 downloaded, extracted, error>>
  /\ last_yn' = None
  /\ UNCHANGED <<hook_vars, fn_vars, run_vars>>

\* save_config, lines 195-209
save_config ==
  /\ pc = "save"
  /\ file' = ConfigOf(mem)
  /\ log' = log \o <<"save_config">>
  /\ pc' = "done"
  /\ UNCHANGED <<file0, mem, latest_release, latest_version, branch, answer, entered, dph_filename,
                 downloaded, extracted, error>>
  /\ last_yn' = None
  /\ UNCHANGED <<hook_vars, fn_vars, run_vars>>

Next ==
  \/ Construct
  \/ update_get_latest
  \/ update_input_version
  \/ update_decide
  \/ update_yes_no
  \/ update_install
  \/ save_config

Spec == Init /\ [][Next]_vars

\* The run is sequential and blocking: each step is taken once it can be, every
\* prompt is eventually answered and yes_no eventually gets an accepted token.
FairSpec ==
  /\ Init /\ [][Next]_vars
  /\ WF_vars(Next)
  /\ WF_vars(update_yes_no /\ pc' # "yes_no")

\* ------------------------------------------------ one run after another
RerunInit ==
  /\ file \in {DefaultConfig, [DefaultConfig EXCEPT !.current_version = <<"1">>]}
  /\ UpdIdle
  /\ RunIdle
  /\ FnIdle
  /\ HookIdle

\* the program is started again on the config.json left by a run that installed
\* an update: a new instance (lines 47-51), nothing kept but the file
Restart ==
  /\ pc = "done"
  /\ extracted # None
  /\ run < MaxRuns
  /\ run' = run + 1
  /\ prev_release' = latest_release
  /\ file' = file
  /\ file0' = NoFile
  /\ mem' = Unset
  /\ pc' = "new"
  /\ latest_release' = NoRelease
  /\ latest_version' = None
  /\ branch' = "none"
  /\ answer' = "none"
  /\ entered' = None
  /\ dph_filename' = None
  /\ downloaded' = {}
  /\ extracted' = None
  /\ error' = "none"
  /\ log' = <<>>
  /\ last_yn' = None
  /\ UNCHANGED <<hook_vars, fn_vars>>

RerunNext == Next \/ Restart

RerunSpec == RerunInit /\ [][RerunNext]_vars

\* ------------------------------------------------- the progress hook
BlockSizes == {k * 1024 : k \in 1..MaxBlockKB}
TotalSizes == {-1, 0} \cup {k * 1024 : k \in 1..MaxTotalKB}

HookInit ==
  /\ file = NoFile
  /\ UpdIdle
  /\ RunIdle
  /\ FnIdle
  /\ total_size \in TotalSizes
  /\ block_size \in BlockSizes
  /\ block_count = 0
  /\ display = NoDisplay
  /\ hook_error = "none"

\* urlretrieve (line 167) reporting one more chunk to the hook; an exception
\* raised by the hook ends the transfer
urlretrieve_reporthook ==
  /\ hook_error = "none"
  /\ \E n \in block_count..MaxBlockCount :
       LET r == download_progress_hook(n, block_size, total_size)
       IN  /\ block_count' = n
           /\ hook_error' = r.error
           /\ display' = IF r.printed THEN r.line ELSE display
  /\ UNCHANGED <<total_size, block_size>>
  /\ UNCHANGED <<upd_vars, fn_vars, run_vars>>

HookNext == urlretrieve_reporthook

HookSpec == HookInit /\ [][HookNext]_vars

\* --------------------------------------------------- directory discovery
EntryNames == {"atm9", "mods", "server.properties"}
ChildNames == {"forge.jar", "server.properties", "mods", "world"}

\* an entry of the listed directory: a plain file, or a directory and what it holds
Entries == [name : EntryNames, isdir : {FALSE}, children : {{}}] \cup
           [name : EntryNames, isdir : {TRUE}, children : SUBSET ChildNames]

RECURSIVE Listings(_)
Listings(n) ==
  IF n = 0 THEN {<<>>}
  ELSE Listings(n - 1) \cup
       {Append(l, e) : l \in {t \in Listings(n - 1) : Len(t) = n - 1},
                       e \in Entries} 

DistinctNames(l) == \A i, j \in DOMAIN l : l[i].name = l[j].name => i = j

MARKERS == {"forge.jar", "server.properties", "mods"}

\* variant: every marker must be present
HasMarker_all(children) == \A f \in MARKERS : f \in children

\* line 227: any(file in os.listdir(entry_path) for file in [...])
HasMarker(children) == \E f \in MARKERS : f \in children

\* os.path.join(curr_dir, entry)
join(curr_dir, entry) == <<curr_dir, entry>>

\* find_modpack_directories, lines 212-230: the loop over os.listdir(curr_dir),
\* entries taken in listing order from position i on
RECURSIVE find_modpack_directories(_, _, _)
find_modpack_directories(curr_dir, entries, i) ==
  IF i > Len(entries) THEN <<>>
  ELSE LET entry == entries[i]
           rest == find_modpack_directories(curr_dir, entries, i + 1)
       IN  IF entry.isdir /\ HasMarker(entry.children)
             THEN <<join(curr_dir, entry.name)>> \o rest
             ELSE rest

\* ------------------------------------------------ json.dumps / json.loads
\* Python values as json handles them, tagged with their type.
JNull == [t |-> "null"]
JBool(b) == [t |-> "bool", b |-> b]
JInt(n) == [t |-> "int", n |-> n]
JStr(str) == [t |-> "str", s |-> str]
JError == [t |-> "error"]

KEYS == <<"all_the_mods_9", "page_index", "page_size", "sort", "sort_desc",
          "remove_alphas", "current_version", "data">>
KeySet == {KEYS[i] : i \in DOMAIN KEYS}

NULL == <<"n", "u", "l", "l">>
TRUE_ == <<"t", "r", "u", "e">>
FALSE_ == <<"f", "a", "l", "s", "e">>
DIGITS == <<"0", "1", "2", "3", "4", "5", "6", "7", "8", "9">>

RECURSIVE Digits(_)
Digits(n) == IF n < 10 THEN <<DIGITS[n + 1]>>
             ELSE Digits(n \div 10) \o <<DIGITS[(n % 10) + 1]>>

\* variant: the characters of a string are written as they are
RECURSIVE Escape_none(_)
Escape_none(str) == IF str = <<>> THEN <<>> ELSE <<Head(str)>> \o Escape_none(Tail(str))

\* json.dumps of the characters of a string: quote and backslash get a backslash
RECURSIVE Escape(_)
Escape(str) ==
  IF str = <<>> THEN <<>>
  ELSE (IF Head(str) \in {"\"", "\\"} THEN <<"\\", Head(str)>> ELSE <<Head(str)>>)
         \o Escape(Tail(str))

\* json.dumps of one value
json_dumps_value(v) ==
  CASE v.t = "null" -> NULL
    [] v.t = "bool" -> (IF v.b THEN TRUE_ ELSE FALSE_)
    [] v.t = "int" -> (IF v.n < 0 THEN <<"-">> \o Digits(-v.n) ELSE Digits(v.n))
    [] v.t = "str" -> <<"\"">> \o Escape(v.s) \o <<"\"">>

\* json.dumps of the dict of lines 198-207: one member per key, in the order written
json_dumps(fields) == [i \in DOMAIN KEYS |-> [key |-> KEYS[i],
                                               value |-> json_dumps_value(fields[KEYS[i]])]]

\* the characters between the quotes of a JSON string; <<"error">> when malformed
RECURSIVE Unescape(_)
Unescape(c) ==
  IF c = <<>> THEN <<>>
  ELSE IF Head(c) = "\"" THEN <<"error">>
  ELSE IF Head(c) = "\\"
    THEN IF Len(c) >= 2 /\ c[2] \in {"\"", "\\"}
           THEN LET rest == Unescape(SubSeq(c, 3, Len(c)))
                IN  IF rest = <<"error">> THEN rest ELSE <<c[2]>> \o rest
           ELSE <<"error">>
  ELSE LET rest == Unescape(Tail(c))
       IN  IF rest = <<"error">> THEN rest ELSE <<Head(c)>> \o rest

DigitValue(d) == CHOOSE k \in 0..9 : DIGITS[k + 1] = d
IsDigit(d) == \E k \in 1..10 : DIGITS[k] = d

RECURSIVE Number(_)
Number(c) == IF c = <<>> THEN 0
             ELSE 10 * Number(SubSeq(c, 1, Len(c) - 1)) + DigitValue(c[Len(c)])

\* json.loads of one value
json_loads_value(c) ==
  IF c = NULL THEN JNull
  ELSE IF c = TRUE_ THEN JBool(TRUE)
  ELSE IF c = FALSE_ THEN JBool(FALSE)
  ELSE IF Len(c) >= 2 /\ c[1] = "\"" /\ c[Len(c)] = "\""
    THEN LET u == Unescape(SubSeq(c, 2, Len(c) - 1))
         IN  IF u = <<"error">> THEN JError ELSE JStr(u)
  ELSE IF Len(c) >= 1 /\ \A i \in DOMAIN c : IsDigit(c[i]) THEN JInt(Number(c))
  ELSE IF Len(c) >= 2 /\ c[1] = "-" /\ \A i \in 2..Len(c) : IsDigit(c[i])
    THEN JInt(-Number(Tail(c)))
  ELSE JError

\* json.loads of an object: a dict with the keys of the members (the last one wins)
json_loads(txt) ==
  [k \in {txt[i].key : i \in DOMAIN txt} |->
     LET last == CHOOSE i \in DOMAIN txt :
                   txt[i].key = k /\ \A j \in DOMAIN txt : txt[j].key = k => j <= i
     IN  json_loads_value(txt[last].value)]

JsonChars == {"a", "\"", "\\"}

RECURSIVE JsonStrUpTo(_)
JsonStrUpTo(n) == IF n = 0 THEN {<<>>}
                  ELSE JsonStrUpTo(n - 1) \cup
                       {Append(str, c) : str \in {u \in JsonStrUpTo(n - 1) : Len(u) = n - 1},
                                         c \in JsonChars}

\* the eight instance fields, as values of any JSON scalar type
RoundTripFields ==
  [all_the_mods_9 : {JStr(<<"7", "1">>), JInt(71)},
   page_index : {JInt(0), JInt(12)},
   page_size : {JInt(1)},
   sort : {JStr(<<"d">>)},
   sort_desc : {JStr(TRUE_), JBool(TRUE)},
   remove_alphas : {JStr(TRUE_), JBool(FALSE)},
   current_version : {JNull, JStr(NULL), JStr(<<"0">>)} \cup {JStr(str) : str \in JsonStrUpTo(MaxJsonLen)},
   data : {JNull, JStr(NULL), JInt(-1)}]

\* ------------------------------------------- functions applied on their own
FnInit ==
  /\ file = NoFile
  /\ UpdIdle
  /\ RunIdle
  /\ FnIdle
  /\ HookIdle

\* parse_version (lines 117-118) applied to a release with a given display name
call_parse_version ==
  /\ fn = "none"
  /\ \E n \in StrUpTo(MaxParseLen) :
       /\ arg' = n
       /\ res' = parse_version([display_name |-> n, additional_files_count |-> 0,
                                has_server_pack |-> FALSE])
  /\ fn' = "parse_version"
  /\ UNCHANGED <<text, upd_vars, run_vars, hook_vars>>

\* has_server_files (lines 108-109) applied to a release
call_has_server_files ==
  /\ fn = "none"
  /\ \E r \in [display_name : {<<>>}, additional_files_count : 0..MaxFiles,
               has_server_pack : BOOLEAN] :
       /\ arg' = r
       /\ res' = has_server_files(r)
  /\ fn' = "has_server_files"
  /\ UNCHANGED <<text, upd_vars, run_vars, hook_vars>>

\* find_modpack_directories (lines 212-230) applied to the listing of a directory
call_find_modpack_directories ==
  /\ fn = "none"
  /\ \E l \in Listings(MaxEntries) :
       /\ DistinctNames(l)
       /\ arg' = l
       /\ res' = find_modpack_directories("cwd", l, 1)
  /\ fn' = "find_modpack_directories"
  /\ UNCHANGED <<text, upd_vars, run_vars, hook_vars>>

\* save_config (lines 195-209) writing the instance fields
call_save_config ==
  /\ fn = "none"
  /\ \E fields \in RoundTripFields :
       /\ arg' = fields
       /\ text' = json_dumps(fields)
  /\ fn' = "save_config"
  /\ UNCHANGED <<res, upd_vars, run_vars, hook_vars>>

\* read_config (lines 179-192) reading back what save_config wrote: res.fields are
\* the instance fields it sets, res.config the dict it returns
call_read_config ==
  /\ fn = "save_config"
  /\ LET config == json_loads(text)
     IN  res' = [config |-> config, fields |-> [k \in KeySet |-> config[k]]]
  /\ fn' = "read_config"
  /\ UNCHANGED <<arg, text, upd_vars, run_vars, hook_vars>>

FnNext ==
  \/ call_parse_version
  \/ call_has_server_files
  \/ call_find_modpack_directories
  \/ call_save_config
  \/ call_read_config

FnSpec == FnInit /\ [][FnNext]_vars

TypeOK ==
  /\ pc \in {"new", "ready", "input_version", "decide", "yes_no", "install", "save",
             "done", "aborted"}
  /\ branch \in {"none", "UpdateAvailable", "UpToDate", "NoServerFiles", "NoNewVersion"}
  /\ answer \in {"none", "yes", "no"}
\* ---------------------------------------------------------- properties
Called(e) == \E i \in DOMAIN log : log[i] = e
Count(e) == Len(SelectSeq(log, LAMBDA x : x = e))
Before(a, b) == \A j \in DOMAIN log : log[j] = b => \E i \in 1..(j - 1) : log[i] = a

\* C1: after a confirmed update whose install completed, the current_version
\* written by save_config is the parsed version of the latest release.
C1_SavedVersionIsLatest ==
  (pc = "done" /\ branch = "UpdateAvailable" /\ answer = "yes" /\ extracted # None)
    => file.current_version = parse_version(latest_release)

\* C2 as stated: after a declined confirmation the current_version of the
\* configuration document equals the one it had before the run, whatever it
\* was (a version string or null).
C2_CancelKeepsVersion ==
  (pc = "done" /\ answer = "no") => file.current_version = file0.current_version

\* C2 amended: after a declined confirmation the current_version of the
\* document is the loaded one when that was a version string, and the
\* string entered at the version prompt when it was null.
C2_CancelKeepsResolvedVersion ==
  (pc = "done" /\ answer = "no")
    => /\ file0.current_version # None => file.current_version = file0.current_version
       /\ file0.current_version = None =>
            (entered \in Versions /\ file.current_version = entered)

C2_Witness ==
  /\ pc = "done" /\ answer = "no"
  /\ file0.current_version = None
  /\ file.current_version # None

C4_BranchIsDecide ==
  (branch # "none" /\ mem.current_version # None)
    => branch = (IF mem.current_version = parse_version(latest_release) THEN "UpToDate"
                 ELSE IF ~has_server_files(latest_release) THEN "NoServerFiles"
                 ELSE "UpdateAvailable")

C4_Witness ==
  /\ branch = "UpToDate"
  /\ ~has_server_files(latest_release)
  /\ Len(mem.current_version) > 0

\* C5: whenever install_update runs, the archive it extracts was downloaded
\* earlier in the same run.
C5_DownloadBeforeInstall ==
  Called("install_update") => (dph_filename \in downloaded)

\* C6: yes_no is called only when the decision is UpdateAvailable, and
\* install_update only after yes_no returned true in the same run.
C6_Gated ==
  /\ Called("yes_no") =>
       /\ branch = "UpdateAvailable"
       /\ mem.current_version # parse_version(latest_release)
       /\ has_server_files(latest_release)
  /\ Called("install_update") => (answer = "yes" /\ Before("yes_no", "install_update"))
  /\ extracted # None => Called("install_update")

C6_Witness ==
  /\ extracted # None
  /\ answer = "yes"
  /\ Count("yes_no") > 1

\* C7: when the decision is UpToDate or NoServerFiles the run goes straight
\* to save_config: no confirmation, no download, no extraction, and the run
\* ends with the configuration saved.
C7_ShortCircuit ==
  branch \in {"UpToDate", "NoServerFiles"} =>
    /\ ~Called("yes_no") /\ ~Called("install_update")
    /\ downloaded = {} /\ extracted = None
    /\ pc \in {"save", "done"}
    /\ pc = "done" => (log[Len(log)] = "save_config" /\ Count("save_config") = 1)

C7_Witness ==
  /\ pc = "done"
  /\ branch = "NoServerFiles"
  /\ Called("save_config")

\* C8: when the loaded current version is null the version is asked exactly
\* once, after the latest release was fetched and before the decision, the
\* decision uses the entered value, and nothing is confirmed, installed or
\* saved while the current version is still null.
C8_VersionPrompt ==
  /\ Count("input_version") <= 1
  /\ Called("input_version") =>
       (file0.current_version = None /\ Before("get_latest_version", "input_version"))
  /\ Before("input_version", "decide") \/ ~Called("input_version")
  /\ (pc \in {"decide", "yes_no", "install", "save", "done"} /\ file0.current_version = None)
       => (Count("input_version") = 1 /\ mem.current_version = entered /\ entered # None)
  /\ (Called("decide") \/ Called("yes_no") \/ Called("install_update") \/ Called("save_config")
        \/ pc = "decide")
       => mem.current_version # None
  /\ (branch # "none" /\ entered # None) => branch = UpdateBranch(entered, latest_release)

C8_Witness ==
  /\ pc = "done"
  /\ file0.current_version = None
  /\ entered # None
  /\ branch = "UpdateAvailable"

\* C9: for a fixed positive total size and non-decreasing block counts, the
\* index of the status label shown never decreases from one callback to the
\* next.
C9_StatusMonotonic ==
  [][(total_size > 0 /\ display # NoDisplay /\ display' # NoDisplay)
       => display'.status >= display.status]_vars

\* C10: a callback with more than 1 KB transferred and a total size of zero
\* or -1 raises nothing.
C10_NoFailureOnUnknownTotal ==
  (total_size <= 0 /\ block_count * block_size > 1024) => hook_error = "none"
\* C11: parse_version returns the segment after the last delimiter: for a
\* display name "<name> - <version>" exactly <version>, with nothing of the
\* delimiter region around it, and the whole name when it has no delimiter.
C11_ParseVersionTrailingSegment ==
  fn = "parse_version" =>
    /\ \A k \in 1..Len(arg) :
         LET v == SubSeq(arg, k, Len(arg))
         IN  (/\ k > 3
              /\ SubSeq(arg, k - 3, k - 1) = <<" ", "-", " ">>
              /\ \A i \in DOMAIN v : v[i] \notin {"-", " "})
               => res = v
    /\ (\A i \in DOMAIN arg : arg[i] # "-") => res = arg

\* C12: has_server_files is true exactly when additional_files_count > 0 and
\* has_server_pack is set; with a count of 0 it is false whatever the flag.
C12_HasServerFilesIff ==
  fn = "has_server_files" =>
    /\ res = (arg.additional_files_count > 0 /\ arg.has_server_pack)
    /\ arg.additional_files_count = 0 => res = FALSE

C12_Witness ==
  /\ fn = "has_server_files"
  /\ arg.additional_files_count = 0
  /\ arg.has_server_pack
  /\ res = FALSE
\* C13: find_modpack_directories returns exactly the immediate
\* subdirectories holding forge.jar, server.properties or mods, each once;
\* plain files and subdirectories without a marker are not returned.
C13_DiscoverExactlyMarked ==
  fn = "find_modpack_directories" =>
    LET marked == {i \in DOMAIN arg :
                     /\ arg[i].isdir
                     /\ arg[i].children \cap {"forge.jar", "server.properties", "mods"} # {}}
    IN  /\ {res[k] : k \in DOMAIN res} = {<<"cwd", arg[i].name>> : i \in marked}
        /\ Len(res) = Cardinality(marked)

C13_Witness ==
  /\ fn = "find_modpack_directories"
  /\ Len(arg) = 2 /\ Len(res) = 1
  /\ \E i \in DOMAIN arg : arg[i].isdir /\ arg[i].children = {"server.properties"}
  /\ \E i \in DOMAIN arg : arg[i].isdir /\ arg[i].children = {"world"}
\* C14: save_config followed by read_config gives a document with the same
\* eight keys and the same values, a null current_version included, and
\* the instance fields are what they were before save_config.
C14_ConfigRoundTrip ==
  fn = "read_config" =>
    /\ DOMAIN res.config = DOMAIN arg
    /\ \A k \in DOMAIN arg : res.config[k] = arg[k]
    /\ res.fields = arg

C14_Witness ==
  /\ fn = "read_config"
  /\ arg.current_version = [t |-> "null"]
  /\ res.config.current_version = [t |-> "null"]
  /\ arg.data = [t |-> "str", s |-> <<"n", "u", "l", "l">>]
  /\ Len(text) = 8
\* C15 as stated: in every run the configuration document is loaded exactly
\* once, at start, and written exactly once, as the very last action of the
\* run, whether it existed before startup or had to be created.
C15_LoadOnceWriteOnceLast ==
  pc \in {"done", "aborted"} =>
    /\ Count("read_config") = 1
    /\ Count("save_config") + Count("create_config") = 1
    /\ log[Len(log)] = "save_config"

\* C15 amended: the document is loaded exactly once, at start, preceded only
\* by the writing of the defaults when it was absent; a run that ends
\* normally writes it with save_config exactly once, as its very last
\* action; a run that aborts does not write it after the load.
C15_LoadOnceSaveLast ==
  pc # "new" =>
    /\ Count("read_config") = 1
    /\ Count("create_config") <= 1
    /\ log[1] = "read_config" \/ (log[1] = "create_config" /\ log[2] = "read_config")
    /\ pc = "done" => (Count("save_config") = 1 /\ log[Len(log)] = "save_config")
    /\ pc # "done" => Count("save_config") = 0

C15_Witness ==
  /\ pc = "done"
  /\ Called("create_config")
  /\ Called("install_update")
  /\ log[Len(log)] = "save_config"
UpperOf(c) == CASE c = "y" -> "Y" [] c = "e" -> "E" [] c = "s" -> "S"
                [] c = "n" -> "N" [] c = "o" -> "O" [] OTHER -> c
SameIgnoringCase(t, w) ==
  Len(t) = Len(w) /\ \A i \in DOMAIN w : t[i] = w[i] \/ t[i] = UpperOf(w[i])
SaysYes(t) == SameIgnoringCase(t, <<"y">>) \/ SameIgnoringCase(t, <<"y", "e", "s">>)
SaysNo(t) == SameIgnoringCase(t, <<"n">>) \/ SameIgnoringCase(t, <<"n", "o">>)

\* C16: yes_no returns only on y, yes, n or no in any letter case, true
\* exactly for y and yes; any other input asks again and changes nothing
\* else.
C16_YesNoTokens ==
  [][/\ pc = "yes_no" =>
          IF SaysYes(last_yn') \/ SaysNo(last_yn')
            THEN /\ pc' # "yes_no"
                 /\ answer' = (IF SaysYes(last_yn') THEN "yes" ELSE "no")
                 /\ pc' = "install" <=> SaysYes(last_yn')
            ELSE /\ pc' = "yes_no"
                 /\ log' = Append(log, "yes_no")
                 /\ UNCHANGED <<file, file0, mem, latest_release, latest_version, branch,
                                answer, entered, dph_filename, downloaded, extracted, error>>
     /\ answer' # answer => pc = "yes_no"]_vars

C16_Witness ==
  /\ pc = "save"
  /\ last_yn = <<"N", "o">>
  /\ answer = "no"
  /\ Count("yes_no") = 2
\* C17: every configuration field other than current_version keeps the
\* value loaded at start through every step of the run, and save_config
\* writes that value back.
C17_OtherFieldsKept ==
  pc # "new" =>
    \A k \in {"all_the_mods_9", "page_index", "page_size", "sort", "sort_desc",
              "remove_alphas", "data"} :
      mem[k] = file0[k] /\ file[k] = file0[k]

C17_Witness ==
  /\ pc = "done"
  /\ Called("save_config")
  /\ file0.all_the_mods_9 = "520914"
  /\ file0.remove_alphas = "false"
  /\ file.current_version # file0.current_version
\* C18: with every prompt answered and the confirmation eventually valid,
\* a run ends, either with the configuration saved or aborted with an
\* error, never both; the registry is queried and the install attempted at
\* most once.
C18_RunEnds ==
  /\ <>(pc \in {"done", "aborted"})
  /\ [](pc = "done" => (Called("save_config") /\ error = "none"))
  /\ [](pc = "aborted" => (~Called("save_config") /\ error # "none"))
  /\ [](Count("get_latest_version") <= 1 /\ Count("install_update") <= 1)
  /\ [][(pc \in {"done", "aborted"}) => (pc' = pc)]_vars

C18_Witness ==
  /\ pc = "aborted"
  /\ error = "BadZipFile"
  /\ Count("get_latest_version") = 1
  /\ Count("yes_no") > 1
\* C19: after a run that installed the latest release and saved the
\* configuration, a following run that sees the same latest release takes
\* the up-to-date branch and neither offers nor installs the update again.
C19_UpdateNotRepeated ==
  (run > 1 /\ branch # "none" /\ latest_release = prev_release)
    => (branch = "UpToDate" /\ ~Called("yes_no") /\ ~Called("install_update"))
\* C20: the final else of update() is never taken: every decision is one of
\* update available, on the latest version, no server files.
C20_ElseUnreachable ==
  /\ branch # "NoNewVersion"
  /\ Called("decide") => branch \in {"UpdateAvailable", "UpToDate", "NoServerFiles"}

C20_Witness ==
  /\ pc = "done"
  /\ branch = "UpToDate"
  /\ has_server_files(latest_release)
  /\ entered # None
====
